---- MODULE Spec2Model ----
(***************************************************************************)
(* Model of tempest.py, the ISMCTS worker of the Mighty AI: determinize,   *)
(* the InfoSet tree and the ismcts search loop.  The rule engine           *)
(* (game_logic.engine / game_logic.constructs / game_logic.cards) is not   *)
(* part of the sources; what the search needs of it (legal plays, applying *)
(* a play, phase, rewards, perspective view) is modelled from the          *)
(* interface description of the specification, section 6.                  *)
(***************************************************************************)
EXTENDS Integers, Sequences, FiniteSets, TLC

(***************************************************************************)
(* Bounds and program constants                                            *)
(***************************************************************************)
\* largest iteration budget (itermax) a modelled call is given
MaxIter == 4

\* range(5): the five players
NumPlayers == 5
\* the "+ 3" of the card-accounting assertion: size of the kitty
KittySize == 3
\* len(completed_tricks) < 10: number of tricks of a game
NumTricks == 10
\* Card.iter(): the 53 cards of the deck (52 suited cards and the joker)
DeckSize == 53
\* exploration=0.7, kept in tenths
ExplorationTenths == 7

Players == 0 .. (NumPlayers - 1)
Deck == 1 .. DeckSize
\* parent=None / node_head is None
None == 0
\* the value of a play variable that holds no play
NoPlay == [player |-> -1, card |-> 0]

(***************************************************************************)
(* Sequence helpers                                                        *)
(***************************************************************************)
\* the element of a set of one element
TheOne(S) == CHOOSE r \in S : TRUE

Range(s) == {s[k] : k \in 1 .. Len(s)}

Reverse(s) == [k \in 1 .. Len(s) |-> s[Len(s) + 1 - k]]

RECURSIVE SumSeq(_)
SumSeq(s) == IF s = <<>> THEN 0 ELSE Head(s) + SumSeq(Tail(s))

RECURSIVE Flatten(_)
Flatten(ss) == IF ss = <<>> THEN <<>> ELSE Head(ss) \o Flatten(Tail(ss))

\* the cards of a sequence of plays
CardsOf(plays) == [k \in 1 .. Len(plays) |-> plays[k].card]

\* all orderings of the elements of a set
RECURSIVE PermSeqs(_)
PermSeqs(S) ==
    IF S = {} THEN {<<>>}
    ELSE UNION {{<<x>> \o p : p \in PermSeqs(S \ {x})} : x \in S}

\* the orderings of the positions of a list of up to seven elements
PermTable == [n \in 0 .. 7 |-> PermSeqs(1 .. n)]

\* random.shuffle(list): every ordering of the list is a possible outcome
Shuffles(list) ==
    TheOne({{[k \in 1 .. Len(l) |-> l[perm[k]]] : perm \in PermTable[Len(l)]} :
               l \in {list}})

(***************************************************************************)
(* Cards (game_logic.cards), as far as the search uses them                *)
(***************************************************************************)
SuitOf(c) == (c - 1) \div 13
RankOf(c) == (c - 1) % 13
IsPointCard(c) == c <= 52 /\ RankOf(c) >= 8

\* Card.iter(): the deck in its fixed order
CardIter == [k \in 1 .. DeckSize |-> k]

(***************************************************************************)
(* The rule engine (game_logic.engine.GameEngine), play stage only.        *)
(* Modelled from the interface of the specification: a follow-suit rule    *)
(* for the legal plays, trump-or-led-suit for the winner of a trick, point *)
(* cards collected by the winner, rewards for the declarer's team against  *)
(* the bid once the tenth trick is complete.                               *)
(***************************************************************************)
ZeroRewards == [p \in Players |-> 0]

\* the player whose turn it is
NextPlayer(s) == (s.leader + Len(s.current_trick)) % NumPlayers

\* get_legal_plays(): the plays of the player to move, in hand order
get_legal_plays(s) ==
    IF s.next_calltype # "PLAY" THEN <<>>
    ELSE LET p == NextPlayer(s)
             hand == s.hands[p]
             Follows(c) == SuitOf(c) = SuitOf(s.current_trick[1].card)
             follow == IF s.current_trick = <<>> THEN <<>> ELSE SelectSeq(hand, Follows)
             cards == IF follow = <<>> THEN hand ELSE follow
         IN  [k \in 1 .. Len(cards) |-> [player |-> p, card |-> cards[k]]]

\* the winner of a complete trick
TrickWinner(trick, trump) ==
    LET led == SuitOf(trick[1].card)
        trumps == {k \in 1 .. Len(trick) : SuitOf(trick[k].card) = trump}
        cand == IF trumps # {} THEN trumps
                ELSE {k \in 1 .. Len(trick) : SuitOf(trick[k].card) = led}
        best == CHOOSE k \in cand :
                    \A j \in cand : RankOf(trick[j].card) <= RankOf(trick[k].card)
    IN  trick[best].player

\* gamepoints_rewarded of a finished game
GamePoints(s) ==
    LET team == {s.declarer, s.friend}
        teamPoints == SumSeq([k \in 1 .. NumPlayers |->
                         IF (k - 1) \in team THEN Len(s.point_cards[k - 1]) ELSE 0])
        sign == IF teamPoints >= s.bid THEN 1 ELSE -1
    IN  [p \in Players |->
            IF p = s.declarer THEN 2 * sign
            ELSE IF p = s.friend THEN sign
            ELSE -sign]

\* the card of a legal play leaves the hand and joins the current trick
TakeCard(s, pl) ==
    LET Keep(c) == c # pl.card
    IN  [s EXCEPT !.hands[pl.player] = SelectSeq(@, Keep),
                  !.current_trick = Append(@, pl),
                  !.friend_just_revealed = FALSE]

\* a trick of five plays is complete: its winner takes its point cards and
\* leads the next trick
CloseTrick(s) ==
    LET w == TrickWinner(s.current_trick, s.trump)
        won == SelectSeq(CardsOf(s.current_trick), IsPointCard)
    IN  [s EXCEPT !.current_trick = <<>>,
                  !.completed_tricks = Append(@, s.current_trick),
                  !.trick_winners = Append(@, w),
                  !.point_cards[w] = @ \o won,
                  !.leader = w]

\* the game is over once the tenth trick is complete
Settle(s) ==
    IF Len(s.completed_tricks) = NumTricks
    THEN [s EXCEPT !.next_calltype = "GAME_OVER", !.gamepoints_rewarded = GamePoints(s)]
    ELSE s

\* play(play): applies a legal play; a play that is not legal is rejected
\* and leaves the state as it is
EnginePlay(s, pl) ==
    IF pl \notin Range(get_legal_plays(s)) THEN s
    ELSE IF Len(s.current_trick) + 1 < NumPlayers THEN TakeCard(s, pl)
    ELSE TheOne({Settle(closed) :
                    closed \in {CloseTrick(taken) : taken \in {TakeCard(s, pl)}}})

(***************************************************************************)
(* GameState (tempest.py): the engine state of the play stage              *)
(***************************************************************************)
\* GameState.__init__
GameState(hands, kitty, point_cards, completed_tricks, trick_winners, current_trick, declarer, trump, bid, friend, called_friend, friend_just_revealed) ==
    [hands |-> hands,
     kitty |-> kitty,
     point_cards |-> point_cards,
     completed_tricks |-> completed_tricks,
     trick_winners |-> trick_winners,
     current_trick |-> current_trick,
     declarer |-> declarer,
     trump |-> trump,
     bid |-> bid,
     friend |-> friend,
     called_friend |-> called_friend,
     friend_just_revealed |-> friend_just_revealed,
     next_calltype |-> IF Len(completed_tricks) < NumTricks THEN "PLAY" ELSE "GAME_OVER",
     leader |-> IF Len(completed_tricks) = 0 THEN declarer
                ELSE trick_winners[Len(trick_winners)],
     gamepoints_rewarded |-> ZeroRewards]

\* GameState.from_perspective
from_perspective(persp, hands, kitty) ==
    GameState(hands, kitty, persp.point_cards, persp.completed_tricks,
              persp.trick_winners, persp.current_trick, persp.declarer, persp.trump,
              persp.bid, persp.friend, persp.called_friend, persp.friend_just_revealed)

\* the lists of a state that play() changes in place or that a state holds
MutableFields ==
    {"hands", "kitty", "point_cards", "completed_tricks", "trick_winners", "current_trick"}

\* from_perspective handing every list on as it is, without a copy
CopiedFieldsNone == {}

\* from_perspective: the arguments it copies (deepcopy, or a slice of a list
\* of player numbers) before they become fields of the state
CopiedFields ==
    {"hands", "kitty", "point_cards", "completed_tricks", "trick_winners", "current_trick"}

\* the lists of a determinized state that are the perspective's own objects;
\* determinize puts perspective.hand into the hands and, for the declarer,
\* hands perspective.kitty on as the kitty
SharedFields == MutableFields \ CopiedFields

\* the perspective after the state s, built from it, was changed in place:
\* the lists they share show the changes
WriteThrough(persp, s) ==
    IF SharedFields = {} THEN persp
    ELSE [persp EXCEPT
             !.hand = IF "hands" \in SharedFields THEN s.hands[persp.player] ELSE @,
             !.kitty = IF "kitty" \in SharedFields /\ persp.player = persp.declarer
                       THEN s.kitty ELSE @,
             !.point_cards = IF "point_cards" \in SharedFields THEN s.point_cards ELSE @,
             !.completed_tricks = IF "completed_tricks" \in SharedFields
                                  THEN s.completed_tricks ELSE @,
             !.trick_winners = IF "trick_winners" \in SharedFields
                               THEN s.trick_winners ELSE @,
             !.current_trick = IF "current_trick" \in SharedFields
                               THEN s.current_trick ELSE @]

\* the state variable of a search before its first determinization
EmptyState ==
    GameState([p \in Players |-> <<>>], <<>>, [p \in Players |-> <<>>], <<>>, <<>>, <<>>,
              0, 0, 0, 0, 0, FALSE)

(***************************************************************************)
(* Games and perspectives.  A game is given by its position after eight    *)
(* tricks (the tricks played, each with its leader and its five cards, the *)
(* two cards left in every hand, the kitty) and the plays of its last two  *)
(* tricks; the perspectives given to the search are the views of the       *)
(* players to move at positions of these last two tricks.                  *)
(***************************************************************************)
Game1 ==
    [declarer |-> 1, trump |-> 3, friend |-> 2, bid |-> 17,
     tricks |-> << <<1, 49, 51, 45, 12, 50>>,
                   <<2, 47, 42, 37, 41, 44>>,
                   <<2, 52, 32, 19, 40, 7>>,
                   <<2, 2, 30, 5, 1, 8>>,
                   <<1, 25, 18, 14, 20, 24>>,
                   <<1, 13, 9, 17, 3, 10>>,
                   <<1, 4, 11, 31, 38, 6>>,
                   <<2, 43, 27, 16, 23, 15>> >>,
     hands |-> << <<29, 53>>, <<28, 22>>, <<46, 48>>, <<36, 35>>, <<39, 33>> >>,
     kitty |-> <<34, 26, 21>>,
     plays |-> <<46, 35, 33, 53, 22, 48, 36, 39, 29, 28>>]

Game2 ==
    [declarer |-> 2, trump |-> 3, friend |-> 0, bid |-> 13,
     tricks |-> << <<2, 40, 46, 41, 45, 50>>,
                   <<1, 18, 21, 17, 24, 20>>,
                   <<4, 48, 53, 7, 44, 43>>,
                   <<4, 39, 27, 34, 28, 36>>,
                   <<4, 47, 30, 19, 49, 51>>,
                   <<3, 26, 1, 23, 25, 22>>,
                   <<3, 13, 9, 11, 12, 6>>,
                   <<3, 15, 31, 14, 32, 37>> >>,
     hands |-> << <<29, 4>>, <<33, 2>>, <<3, 42>>, <<8, 10>>, <<5, 52>> >>,
     kitty |-> <<35, 38, 16>>,
     plays |-> <<10, 5, 4, 2, 3, 8, 52, 29, 33, 42>>]

Game3 ==
    [declarer |-> 2, trump |-> 3, friend |-> 4, bid |-> 13,
     tricks |-> << <<2, 29, 34, 31, 32, 28>>,
                   <<3, 53, 52, 3, 37, 35>>,
                   <<4, 46, 44, 50, 47, 40>>,
                   <<1, 10, 7, 12, 9, 8>>,
                   <<3, 4, 6, 26, 2, 13>>,
                   <<2, 24, 15, 25, 14, 21>>,
                   <<4, 48, 30, 5, 41, 43>>,
                   <<4, 51, 27, 38, 36, 45>> >>,
     hands |-> << <<33, 22>>, <<16, 39>>, <<23, 18>>, <<19, 20>>, <<1, 17>> >>,
     kitty |-> <<11, 42, 49>>,
     plays |-> <<17, 22, 16, 18, 19, 33, 39, 23, 20, 1>>]

Games == <<Game1, Game2, Game3>>

\* a played trick of a game as the sequence of its plays
TrickPlays(t) ==
    [k \in 1 .. NumPlayers |-> [player |-> (t[1] + k - 1) % NumPlayers, card |-> t[k + 1]]]

\* the engine state of a game after the tricks it lists
StartState(g) ==
    LET done == [t \in 1 .. Len(g.tricks) |-> TrickPlays(g.tricks[t])]
        winners == [t \in 1 .. Len(done) |-> TrickWinner(done[t], g.trump)]
        PointsOf(p) == Flatten([t \in 1 .. Len(done) |->
                          IF winners[t] = p
                          THEN SelectSeq(CardsOf(done[t]), IsPointCard)
                          ELSE <<>>])
    IN  GameState([p \in Players |-> g.hands[p + 1]], g.kitty,
                  [p \in Players |-> PointsOf(p)], done, winners, <<>>,
                  g.declarer, g.trump, g.bid, g.friend, 0, FALSE)

\* the engine state of a game after n more plays
RECURSIVE StateAfter(_, _)
StateAfter(g, n) ==
    IF n = 0 THEN StartState(g)
    ELSE LET s == StateAfter(g, n - 1)
         IN  EnginePlay(s, [player |-> NextPlayer(s), card |-> g.plays[n]])

\* get_perspective(player): what a player sees of an engine state
get_perspective(s, player) ==
    [player |-> player,
     hand |-> s.hands[player],
     kitty |-> IF player = s.declarer THEN s.kitty ELSE <<>>,
     hand_sizes |-> [p \in Players |-> Len(s.hands[p])],
     point_cards |-> s.point_cards,
     completed_tricks |-> s.completed_tricks,
     trick_winners |-> s.trick_winners,
     current_trick |-> s.current_trick,
     declarer |-> s.declarer,
     trump |-> s.trump,
     bid |-> s.bid,
     friend |-> s.friend,
     called_friend |-> s.called_friend,
     friend_just_revealed |-> s.friend_just_revealed]

(***************************************************************************)
(* determinize (mode 0)                                                    *)
(***************************************************************************)
is_declarer(persp) == persp.player = persp.declarer

\* played_cards: the cards whose place the observer knows
PlayedCards(persp) ==
    Range(CardsOf(Flatten(persp.completed_tricks)))
        \cup Range(CardsOf(persp.current_trick))
        \cup Range(persp.hand)
        \cup (IF is_declarer(persp) THEN Range(persp.kitty) ELSE {})

\* unplayed_cards before the shuffle: the unseen pool in deck order
UnplayedCards(persp) ==
    TheOne({LET Unseen(c) == c \notin played
            IN  SelectSeq(CardIter, Unseen) : played \in {PlayedCards(persp)}})

\* the card-accounting assertions
AccountingOK(persp, unplayed) ==
    LET owed == SumSeq([k \in 1 .. NumPlayers |-> persp.hand_sizes[k - 1]])
                    - Len(persp.hand)
    IN  IF ~is_declarer(persp)
        THEN Len(unplayed) = owed + KittySize
        ELSE Len(unplayed) = owed

\* unplayed_cards.pop() never meets an empty list: the pool holds the cards
\* the dealing loop takes
PoolSuffices(persp, unplayed) ==
    SumSeq([k \in 1 .. NumPlayers |->
               IF k - 1 = persp.player THEN 0 ELSE persp.hand_sizes[k - 1]])
        <= Len(unplayed)

\* PopHand reading the cards without taking them off the pool
PopHandKeep(pool, hand_size) ==
    [hand |-> Reverse(SubSeq(pool, Len(pool) - hand_size + 1, Len(pool))),
     rest |-> pool]

\* PopHand with the loop running once too few: range(hand_size - 1)
PopHandShort(pool, hand_size) ==
    IF hand_size = 0 THEN [hand |-> <<>>, rest |-> pool]
    ELSE [hand |-> Reverse(SubSeq(pool, Len(pool) - hand_size + 2, Len(pool))),
          rest |-> SubSeq(pool, 1, Len(pool) - hand_size + 1)]

\* hand_size times determinized_hands[player].append(unplayed_cards.pop()):
\* the cards come off the end of the pool, the last one first
PopHand(pool, hand_size) ==
    [hand |-> Reverse(SubSeq(pool, Len(pool) - hand_size + 1, Len(pool))),
     rest |-> SubSeq(pool, 1, Len(pool) - hand_size)]

\* the dealing loop over range(5), from player p on
RECURSIVE DealHands(_, _, _, _)
DealHands(persp, pool, p, hands) ==
    IF p = NumPlayers THEN [hands |-> hands, pool |-> pool]
    ELSE IF p = persp.player THEN DealHands(persp, pool, p + 1, hands)
    ELSE TheOne({DealHands(persp, popped.rest, p + 1, [hands EXCEPT ![p] = popped.hand]) :
                    popped \in {PopHand(pool, persp.hand_sizes[p])}})

\* DeterminizedHands without the assignment of the observer's hand
DeterminizedHandsDealtOnly(persp, shuffled) ==
    DealHands(persp, shuffled, 0, [p \in Players |-> <<>>]).hands

\* determinized_hands after the loop and the assignment of the observer's hand
DeterminizedHands(persp, shuffled) ==
    LET dealt == DealHands(persp, shuffled, 0, [p \in Players |-> <<>>])
    IN  [dealt.hands EXCEPT ![persp.player] = persp.hand]

\* DeterminizedKitty taking the perspective's kitty for every observer
DeterminizedKittyOfPerspective(persp, shuffled) == persp.kitty

\* determinized_kitty
DeterminizedKitty(persp, shuffled) ==
    IF ~is_declarer(persp)
    THEN DealHands(persp, shuffled, 0, [p \in Players |-> <<>>]).pool
    ELSE persp.kitty

\* determinize(perspective, 0) for one outcome of random.shuffle
determinize(persp, shuffled) ==
    from_perspective(persp, DeterminizedHands(persp, shuffled),
                     DeterminizedKitty(persp, shuffled))

(***************************************************************************)
(* InfoSet: the nodes of the search tree.  The tree is the sequence of its *)
(* nodes in creation order; node 1 is the root, parents and children are   *)
(* node numbers.                                                           *)
(***************************************************************************)
Root == 1

\* InfoSet.__init__
InfoSet(parent, arriving_play) ==
    [parent |-> parent,
     arriving_play |-> arriving_play,
     children |-> <<>>,
     play_to_children |-> <<>>,
     reward_sum |-> 0,
     visits |-> 0,
     avails |-> 1,
     tried_plays |-> {}]

\* _play_to_children is kept as the sequence of its (play, child) items in
\* insertion order
HasChildFor(node, play) == \E k \in 1 .. Len(node.play_to_children) :
                               node.play_to_children[k].play = play

ChildFor(node, play) ==
    LET k == CHOOSE j \in 1 .. Len(node.play_to_children) :
                 node.play_to_children[j].play = play
    IN  node.play_to_children[k].child

\* untried_plays without the filter
untried_playsAll(node, legal) == legal

\* InfoSet.untried_plays
untried_plays(node, legal) ==
    LET Untried(play) == play \notin node.tried_plays
    IN  SelectSeq(legal, Untried)

\* floor of the square root, by bisection
RECURSIVE ISqrtBetween(_, _, _)
ISqrtBetween(x, lo, hi) ==
    IF lo = hi THEN lo
    ELSE LET mid == (lo + hi + 1) \div 2
         IN  IF mid * mid <= x THEN ISqrtBetween(x, mid, hi)
             ELSE ISqrtBetween(x, lo, mid - 1)

ISqrt(x) == ISqrtBetween(x, 0, 16000)

\* log(avails) in ten-thousandths, for avails 1 .. 20
LogTable ==
    <<0, 6931, 10986, 13862, 16094, 17917, 19459, 20793, 21972, 23025,
      23978, 24849, 25649, 26390, 27080, 27725, 28332, 28903, 29444, 29957>>

\* sqrt(log(avails) / visits) in ten-thousandths, for avails and visits 1 .. 20
SqrtLogTable ==
    [a \in 1 .. 20 |-> [v \in 1 .. 20 |-> ISqrt((LogTable[a] * 10000) \div v)]]

\* the key of the max of ucb_child_select, in ten-thousandths:
\* reward_sum / visits + exploration * sqrt(log(avails) / visits)
UCBScore(c) ==
    (c.reward_sum * 10000) \div c.visits
        + (ExplorationTenths * SqrtLogTable[c.avails][c.visits]) \div 10

\* max(seq, key): the first element of the sequence with the largest key
RECURSIVE FirstMaxFrom(_, _, _, _)
FirstMaxFrom(ids, key, k, best) ==
    IF k > Len(ids) THEN best
    ELSE FirstMaxFrom(ids, key, k + 1, IF key[ids[k]] > key[best] THEN ids[k] ELSE best)

FirstMax(ids, key) == FirstMaxFrom(ids, key, 2, ids[1])

\* legal_children of ucb_child_select
LegalChildren(tree, n, legal) ==
    [k \in 1 .. Len(legal) |-> ChildFor(tree[n], legal[k])]

\* ucb_child_select: the selected child
ucb_child_select(tree, n, legal) ==
    LET ids == LegalChildren(tree, n, legal)
    IN  FirstMax(ids, [c \in Range(ids) |-> UCBScore(tree[c])])

\* UpdateAvails counting nothing
UpdateAvailsNone(tree, n, legal) == tree

\* UpdateAvails counting the availability of the selected child only
UpdateAvailsSelectedOnly(tree, n, legal) ==
    [tree EXCEPT ![ucb_child_select(tree, n, legal)].avails = @ + 1]

\* ucb_child_select: the availability counts after the call
UpdateAvails(tree, n, legal) ==
    LET ids == LegalChildren(tree, n, legal)
        Times(c) == Cardinality({k \in 1 .. Len(ids) : ids[k] = c})
    IN  [c \in 1 .. Len(tree) |-> [tree[c] EXCEPT !.avails = @ + Times(c)]]

\* add_child that does not record the play as tried
add_childUntracked(tree, n, play) ==
    LET child == Len(tree) + 1
        items == IF HasChildFor(tree[n], play)
                 THEN [k \in 1 .. Len(tree[n].play_to_children) |->
                          IF tree[n].play_to_children[k].play = play
                          THEN [play |-> play, child |-> child]
                          ELSE tree[n].play_to_children[k]]
                 ELSE Append(tree[n].play_to_children, [play |-> play, child |-> child])
    IN  Append([tree EXCEPT ![n].children = Append(@, child),
                            ![n].play_to_children = items],
               InfoSet(n, play))

\* InfoSet.add_child: the tree with the new child of node n appended
add_child(tree, n, play) ==
    LET child == Len(tree) + 1
        items == IF HasChildFor(tree[n], play)
                 THEN [k \in 1 .. Len(tree[n].play_to_children) |->
                          IF tree[n].play_to_children[k].play = play
                          THEN [play |-> play, child |-> child]
                          ELSE tree[n].play_to_children[k]]
                 ELSE Append(tree[n].play_to_children, [play |-> play, child |-> child])
    IN  Append([tree EXCEPT ![n].children = Append(@, child),
                            ![n].play_to_children = items,
                            ![n].tried_plays = @ \cup {play}],
               InfoSet(n, play))

\* update counting every visit twice
updateTwice(node, rewards) ==
    [node EXCEPT !.visits = @ + 2,
                 !.reward_sum = IF node.arriving_play # NoPlay
                                THEN @ + rewards[node.arriving_play.player]
                                ELSE @]

\* update counting the visit only on nodes that have an arriving play
updateSkipRoot(node, rewards) ==
    IF node.arriving_play # NoPlay
    THEN [node EXCEPT !.visits = @ + 1,
                      !.reward_sum = @ + rewards[node.arriving_play.player]]
    ELSE node

\* update crediting the reward of the player after the one who played
updateNextPlayer(node, rewards) ==
    [node EXCEPT !.visits = @ + 1,
                 !.reward_sum = IF node.arriving_play # NoPlay
                                THEN @ + rewards[(node.arriving_play.player + 1) % NumPlayers]
                                ELSE @]

\* InfoSet.update
update(node, rewards) ==
    [node EXCEPT !.visits = @ + 1,
                 !.reward_sum = IF node.arriving_play # NoPlay
                                THEN @ + rewards[node.arriving_play.player]
                                ELSE @]

\* BestChild taking the node the last expansion created
BestChildLastCreated(tree) == Len(tree)

\* BestChild by the highest mean reward
BestChildByMean(tree) ==
    FirstMax(tree[Root].children,
             [c \in Range(tree[Root].children) |->
                 (tree[c].reward_sum * 10000) \div tree[c].visits])

\* max(root_node.children, key=lambda child: child.visits)
BestChild(tree) ==
    FirstMax(tree[Root].children, [c \in Range(tree[Root].children) |-> tree[c].visits])

(***************************************************************************)
(* The tree-statistics report: TreeInfoDataStructure and InfoSet.tree_info *)
(***************************************************************************)
\* TreeInfoDataStructure.__init__: the layers, and whether the assertion that
\* all layers are as long as the first one passed
TreeInfoDataStructure(layers) ==
    [ok |-> \A k \in 1 .. Len(layers) : Len(layers[k]) = Len(layers[1]),
     layers |-> layers]

\* layers + [[-1] * width for _ in range(layer_count - depth)]
PadLayers(layers, width, layer_count) ==
    layers \o [k \in 1 .. (layer_count - Len(layers)) |-> [j \in 1 .. width |-> -1]]

\* TreeInfoDataStructure.__add__: the layers side by side, the shallower
\* structure filled up with layers of -1
TreeInfoAdd(a, b) ==
    LET layer_count == IF Len(a.layers) >= Len(b.layers) THEN Len(a.layers)
                       ELSE Len(b.layers)
        my_layers == PadLayers(a.layers, Len(a.layers[1]), layer_count)
        other_layers == PadLayers(b.layers, Len(b.layers[1]), layer_count)
        merged == TreeInfoDataStructure(
                      [k \in 1 .. layer_count |-> my_layers[k] \o other_layers[k]])
    IN  [merged EXCEPT !.ok = @ /\ a.ok /\ b.ok]

\* add_parent writing the parent's visits into the last column
add_parentRight(info, parent_visits) ==
    LET parent_layer == [j \in 1 .. (Len(info.layers[1]) - 1) |-> -1] \o <<parent_visits>>
    IN  [info EXCEPT !.layers = <<parent_layer>> \o @]

\* TreeInfoDataStructure.add_parent
add_parent(info, parent_visits) ==
    LET parent_layer == <<parent_visits>> \o [j \in 1 .. (Len(info.layers[1]) - 1) |-> -1]
    IN  [info EXCEPT !.layers = <<parent_layer>> \o @]

\* reduce(lambda x, y: x + y, infos) from the k-th structure on
RECURSIVE ReduceAdd(_, _, _)
ReduceAdd(acc, infos, k) ==
    IF k > Len(infos) THEN acc
    ELSE TheOne({ReduceAdd(sum, infos, k + 1) : sum \in {TreeInfoAdd(acc, infos[k])}})

\* InfoSet.tree_info_constructor of node n
RECURSIVE tree_info_constructor(_, _)
tree_info_constructor(tree, n) ==
    IF Len(tree[n].children) = 0
    THEN TreeInfoDataStructure(<< <<tree[n].visits>> >>)
    ELSE TheOne({add_parent(ReduceAdd(infos[1], infos, 2), tree[n].visits) :
                    infos \in {[k \in 1 .. Len(tree[n].children) |->
                                  tree_info_constructor(tree, tree[n].children[k])]}})

\* InfoSet.tree_info: the arriving plays of the children and the layers
tree_info(tree, n) ==
    [plays |-> [k \in 1 .. Len(tree[n].children) |-> tree[tree[n].children[k]].arriving_play],
     layers |-> tree_info_constructor(tree, n).layers]

(***************************************************************************)
(* ismcts: the state of one call                                           *)
(***************************************************************************)
VARIABLES
    perspective,         \* the argument of the call
    itermax,             \* the iteration budget
    verbose,             \* the argument verbose
    biased,              \* the mode handed to determinize
    pc,                  \* the position of the call in the body of ismcts
    i,                   \* the loop variable: iterations completed so far
    root_node,           \* the tree: its nodes in creation order
    node_head,           \* the node the iteration stands at, or None
    determinized_state,  \* the world of the current iteration
    legal_plays,         \* the local variable legal_plays
    unplayed_cards,      \* the local variable of determinize, <<>> outside it
    result,              \* the play returned, NoPlay until then
    single_move,         \* the call returned through the single-move check
    error,               \* the exception that ended the call, "" if none
    credited,            \* history: per node, the sum of the reward vectors
                         \* it was updated with
    printed,             \* what the call has printed: file and text, in order
    rejected,            \* history: play() has returned an error code to this call
    ended,               \* history: per node, the iterations that stopped at it
                         \* without expanding it
    inferences           \* Inferences(perspective).inferences, <<>> before it is built

vars == <<perspective, itermax, verbose, biased, pc, i, root_node, node_head,
          determinized_state, legal_plays, unplayed_cards, result, single_move, error,
          credited, printed, rejected, ended, inferences>>

\* the perspective of the player to move after n plays of the last two tricks
\* of game g
PerspectiveAt(g, n) ==
    LET s == StateAfter(Games[g], n)
    IN  get_perspective(s, NextPlayer(s))

\* the positions the modelled calls of ismcts start from: game and number of
\* plays made of its last two tricks (3, 4: fourth and last play of the ninth
\* trick, 5 .. 9: the tenth trick)
Roots == {<<1, 4>>, <<2, 4>>, <<3, 3>>, <<1, 7>>, <<2, 8>>, <<1, 9>>}

\* the state of a call of ismcts on entry, for the calls from a set of positions
InitFrom(roots) ==
    /\ perspective \in {PerspectiveAt(r[1], r[2]) : r \in roots}
    /\ itermax \in -1 .. MaxIter
    /\ verbose \in BOOLEAN
    /\ biased \in BOOLEAN
    /\ pc = "loop"
    /\ i = 0
    /\ root_node = <<InfoSet(None, NoPlay)>>
    /\ node_head = None
    /\ determinized_state = EmptyState
    /\ legal_plays = <<>>
    /\ unplayed_cards = <<>>
    /\ result = NoPlay
    /\ single_move = FALSE
    /\ error = ""
    /\ credited = <<ZeroRewards>>
    /\ printed = <<>>
    /\ rejected = FALSE
    /\ ended = <<0>>
    /\ inferences = <<>>

Init == InitFrom(Roots)

\* LoopHead running one iteration more: range(itermax + 1)
LoopHeadOneMore ==
    /\ pc = "loop"
    /\ IF i <= itermax
       THEN /\ node_head' = Root
            /\ pc' = "determinize"
       ELSE /\ pc' = "report"
            /\ UNCHANGED node_head
    /\ UNCHANGED <<perspective, itermax, biased, i, root_node, determinized_state,
                   legal_plays, result, single_move, error, credited>>
    /\ UNCHANGED unplayed_cards
    /\ UNCHANGED <<verbose, printed>>
    /\ UNCHANGED <<rejected, ended, inferences>>

\* for i in range(itermax): node_head = root_node
LoopHead ==
    /\ pc = "loop"
    /\ IF i < itermax
       THEN /\ node_head' = Root
            /\ pc' = "determinize"
       ELSE /\ pc' = "report"
            /\ UNCHANGED node_head
    /\ UNCHANGED <<perspective, itermax, biased, i, root_node, determinized_state,
                   legal_plays, result, single_move, error, credited>>
    /\ UNCHANGED unplayed_cards
    /\ UNCHANGED <<verbose, printed>>
    /\ UNCHANGED <<rejected, ended, inferences>>

\* determinize(perspective, biased), mode 0, up to random.shuffle: the unseen
\* cards are collected in deck order and shuffled
Shuffle ==
    /\ pc = "determinize"
    /\ ~biased
    /\ unplayed_cards' \in Shuffles(UnplayedCards(perspective))
    /\ pc' = "deal"
    /\ UNCHANGED <<perspective, itermax, biased, i, root_node, node_head,
                   determinized_state, legal_plays, result, single_move, error, credited>>
    /\ UNCHANGED <<verbose, printed>>
    /\ UNCHANGED <<rejected, ended, inferences>>

\* determinize from the assertions on: determinized_state is the world dealt
\* from the shuffled cards, and legal_plays = determinized_state.get_legal_plays()
Determinize ==
    /\ pc = "deal"
    /\ IF ~AccountingOK(perspective, unplayed_cards)
       THEN /\ pc' = "failed"
            /\ error' = "AssertionError"
            /\ UNCHANGED <<determinized_state, legal_plays>>
       ELSE IF ~PoolSuffices(perspective, unplayed_cards)
       THEN /\ pc' = "failed"
            /\ error' = "IndexError"
            /\ UNCHANGED <<determinized_state, legal_plays>>
       ELSE /\ determinized_state' = determinize(perspective, unplayed_cards)
            /\ legal_plays' = get_legal_plays(determinized_state')
            /\ pc' = "single"
            /\ UNCHANGED error
    /\ unplayed_cards' = <<>>
    /\ UNCHANGED <<perspective, itermax, biased, i, root_node, node_head, result,
                   single_move, credited>>
    /\ UNCHANGED <<verbose, printed>>
    /\ UNCHANGED <<rejected, ended, inferences>>

\* DeterminizeUnsupported falling back to the uniform sampling of mode 0
DeterminizeFallsBack ==
    /\ pc = "determinize"
    /\ biased
    /\ unplayed_cards' \in Shuffles(UnplayedCards(perspective))
    /\ pc' = "deal"
    /\ UNCHANGED <<perspective, itermax, verbose, biased, i, root_node, node_head,
                   determinized_state, legal_plays, result, single_move, error, credited,
                   printed>>
    /\ UNCHANGED <<rejected, ended, inferences>>

\* determinize with a mode other than 0: raise NotImplementedError
DeterminizeUnsupported ==
    /\ pc = "determinize"
    /\ biased
    /\ pc' = "failed"
    /\ error' = "NotImplementedError"
    /\ UNCHANGED <<perspective, itermax, biased, i, root_node, node_head,
                   determinized_state, legal_plays, result, single_move, credited>>
    /\ UNCHANGED unplayed_cards
    /\ UNCHANGED <<verbose, printed>>
    /\ UNCHANGED <<rejected, ended, inferences>>

\* print("Single move found - skipping ISMCTS")
SingleMoveMessage == [file |-> "stdout", text |-> "Single move found - skipping ISMCTS"]

\* CheckSingle after the tree has been given the child of the single play
CheckSingleLate ==
    /\ pc = "single"
    /\ IF Len(legal_plays) = 1
       THEN /\ result' = legal_plays[1]
            /\ single_move' = TRUE
            /\ root_node' = add_child(root_node, node_head, legal_plays[1])
            /\ credited' = Append(credited, ZeroRewards)
            /\ printed' = IF verbose THEN Append(printed, SingleMoveMessage) ELSE printed
            /\ pc' = "done"
       ELSE /\ pc' = "select"
            /\ UNCHANGED <<result, single_move, root_node, credited, printed>>
    /\ UNCHANGED <<perspective, itermax, verbose, biased, i, node_head,
                   determinized_state, legal_plays, unplayed_cards, error>>
    /\ UNCHANGED <<rejected, ended, inferences>>

\* if len(legal_plays) == 1: (if verbose: print(...)) return legal_plays[0]
CheckSingle ==
    /\ pc = "single"
    /\ IF Len(legal_plays) = 1
       THEN /\ result' = legal_plays[1]
            /\ single_move' = TRUE
            /\ printed' = IF verbose THEN Append(printed, SingleMoveMessage) ELSE printed
            /\ pc' = "done"
       ELSE /\ pc' = "select"
            /\ UNCHANGED <<result, single_move, printed>>
    /\ UNCHANGED <<perspective, itermax, verbose, biased, i, root_node, node_head,
                   determinized_state, legal_plays, unplayed_cards, error, credited>>
    /\ UNCHANGED <<rejected, ended, inferences>>

\* the condition of the selection loop
FullyExpanded ==
    /\ legal_plays # <<>>
    /\ untried_plays(root_node[node_head], legal_plays) = <<>>

\* SelectionStep keeping the list of legal plays of the world before the play
SelectionStepStale ==
    /\ pc = "select"
    /\ FullyExpanded
    /\ IF \E k \in 1 .. Len(legal_plays) : ~HasChildFor(root_node[node_head], legal_plays[k])
       THEN /\ pc' = "failed"
            /\ error' = "KeyError"
            /\ UNCHANGED <<root_node, node_head, determinized_state, legal_plays>>
       ELSE IF \E k \in 1 .. Len(legal_plays) :
                   root_node[ChildFor(root_node[node_head], legal_plays[k])].visits = 0
       THEN /\ pc' = "failed"
            /\ error' = "ZeroDivisionError"
            /\ UNCHANGED <<root_node, node_head, determinized_state, legal_plays>>
       ELSE LET selected == ucb_child_select(root_node, node_head, legal_plays)
            IN  /\ root_node' = UpdateAvails(root_node, node_head, legal_plays)
                /\ node_head' = selected
                /\ determinized_state' =
                       EnginePlay(determinized_state, root_node[selected].arriving_play)
                /\ UNCHANGED <<pc, error, legal_plays>>
    /\ UNCHANGED <<perspective, itermax, biased, i, result, single_move, credited>>
    /\ UNCHANGED unplayed_cards
    /\ UNCHANGED <<verbose, printed>>
    /\ UNCHANGED <<rejected, ended, inferences>>

\* one pass of the selection loop
SelectionStep ==
    /\ pc = "select"
    /\ FullyExpanded
    /\ IF \E k \in 1 .. Len(legal_plays) : ~HasChildFor(root_node[node_head], legal_plays[k])
       THEN /\ pc' = "failed"
            /\ error' = "KeyError"
            /\ UNCHANGED <<root_node, node_head, determinized_state, legal_plays>>
       ELSE IF \E k \in 1 .. Len(legal_plays) :
                   root_node[ChildFor(root_node[node_head], legal_plays[k])].visits = 0
       THEN /\ pc' = "failed"
            /\ error' = "ZeroDivisionError"
            /\ UNCHANGED <<root_node, node_head, determinized_state, legal_plays>>
       ELSE LET selected == ucb_child_select(root_node, node_head, legal_plays)
            IN  /\ root_node' = UpdateAvails(root_node, node_head, legal_plays)
                /\ node_head' = selected
                /\ determinized_state' =
                       EnginePlay(determinized_state, root_node[selected].arriving_play)
                /\ legal_plays' = get_legal_plays(determinized_state')
                /\ UNCHANGED <<pc, error>>
    /\ UNCHANGED <<itermax, biased, i, result, single_move, credited>>
    /\ UNCHANGED unplayed_cards
    /\ UNCHANGED <<verbose, printed>>
    /\ UNCHANGED <<rejected, ended, inferences>>
    /\ perspective' = WriteThrough(perspective, determinized_state')

\* the selection loop ends
SelectionEnd ==
    /\ pc = "select"
    /\ ~FullyExpanded
    /\ pc' = "expand"
    /\ UNCHANGED <<perspective, itermax, biased, i, root_node, node_head,
                   determinized_state, legal_plays, result, single_move, error, credited>>
    /\ UNCHANGED unplayed_cards
    /\ UNCHANGED <<verbose, printed>>
    /\ UNCHANGED <<rejected, ended, inferences>>

\* Expansion that adds the child and stays at its parent
ExpansionNoDescend ==
    /\ pc = "expand"
    /\ LET untried == untried_plays(root_node[node_head], legal_plays)
       IN  IF untried # <<>>
           THEN \E k \in 1 .. Len(untried) :
                    /\ determinized_state' = EnginePlay(determinized_state, untried[k])
                    /\ root_node' = add_child(root_node, node_head, untried[k])
                    /\ credited' = Append(credited, ZeroRewards)
                    /\ ended' = Append(ended, 0)
           ELSE /\ UNCHANGED <<determinized_state, root_node, credited>>
                /\ ended' = [ended EXCEPT ![node_head] = @ + 1]
    /\ pc' = "rollout"
    /\ UNCHANGED <<perspective, itermax, biased, i, legal_plays, result, single_move,
                   error, node_head>>
    /\ UNCHANGED unplayed_cards
    /\ UNCHANGED <<verbose, printed>>
    /\ UNCHANGED <<rejected, inferences>>

\* Expansion: a random untried play is applied and gets a child
Expansion ==
    /\ pc = "expand"
    /\ LET untried == untried_plays(root_node[node_head], legal_plays)
       IN  IF untried # <<>>
           THEN \E k \in 1 .. Len(untried) :
                    /\ determinized_state' = EnginePlay(determinized_state, untried[k])
                    /\ root_node' = add_child(root_node, node_head, untried[k])
                    /\ node_head' = Len(root_node) + 1
                    /\ credited' = Append(credited, ZeroRewards)
                    /\ ended' = Append(ended, 0)
           ELSE /\ UNCHANGED <<determinized_state, root_node, node_head, credited>>
                /\ ended' = [ended EXCEPT ![node_head] = @ + 1]
    /\ pc' = "rollout"
    /\ UNCHANGED <<itermax, biased, i, legal_plays, result, single_move,
                   error>>
    /\ UNCHANGED unplayed_cards
    /\ UNCHANGED <<verbose, printed>>
    /\ UNCHANGED <<rejected, inferences>>
    /\ perspective' = WriteThrough(perspective, determinized_state')

\* Simulation: one random legal play
RolloutStep ==
    /\ pc = "rollout"
    /\ determinized_state.next_calltype = "PLAY"
    /\ legal_plays' = get_legal_plays(determinized_state)
    /\ IF legal_plays' = <<>>
       THEN /\ pc' = "failed"
            /\ error' = "IndexError"
            /\ UNCHANGED determinized_state
       ELSE /\ \E k \in 1 .. Len(legal_plays') :
                    determinized_state' = EnginePlay(determinized_state, legal_plays'[k])
            /\ UNCHANGED <<pc, error>>
    /\ UNCHANGED <<itermax, biased, i, root_node, node_head, result,
                   single_move, credited>>
    /\ UNCHANGED unplayed_cards
    /\ UNCHANGED <<verbose, printed>>
    /\ UNCHANGED <<rejected, ended, inferences>>
    /\ perspective' = WriteThrough(perspective, determinized_state')

\* RolloutEnd leaving the simulation loop after any number of plays
RolloutEndEarly ==
    /\ pc = "rollout"
    /\ pc' = "backprop"
    /\ UNCHANGED <<perspective, itermax, biased, i, root_node, node_head,
                   determinized_state, legal_plays, result, single_move, error, credited>>
    /\ UNCHANGED unplayed_cards
    /\ UNCHANGED <<verbose, printed>>
    /\ UNCHANGED <<rejected, ended, inferences>>

\* the simulation loop ends
RolloutEnd ==
    /\ pc = "rollout"
    /\ determinized_state.next_calltype # "PLAY"
    /\ pc' = "backprop"
    /\ UNCHANGED <<perspective, itermax, biased, i, root_node, node_head,
                   determinized_state, legal_plays, result, single_move, error, credited>>
    /\ UNCHANGED unplayed_cards
    /\ UNCHANGED <<verbose, printed>>
    /\ UNCHANGED <<rejected, ended, inferences>>

\* BackpropStep walking up two nodes at a time
BackpropStepSkipping ==
    /\ pc = "backprop"
    /\ node_head # None
    /\ root_node' = [root_node EXCEPT ![node_head] =
                        update(@, determinized_state.gamepoints_rewarded)]
    /\ credited' = [credited EXCEPT ![node_head] =
                        [p \in Players |-> @[p] + determinized_state.gamepoints_rewarded[p]]]
    /\ node_head' = IF root_node[node_head].parent = None
                    THEN None
                    ELSE root_node[root_node[node_head].parent].parent
    /\ UNCHANGED <<perspective, itermax, biased, pc, i, determinized_state, legal_plays,
                   result, single_move, error>>
    /\ UNCHANGED unplayed_cards
    /\ UNCHANGED <<verbose, printed>>
    /\ UNCHANGED <<rejected, ended, inferences>>

\* Backpropagation: node_head.update(...); node_head = node_head.parent
BackpropStep ==
    /\ pc = "backprop"
    /\ node_head # None
    /\ root_node' = [root_node EXCEPT ![node_head] =
                        update(@, determinized_state.gamepoints_rewarded)]
    /\ credited' = [credited EXCEPT ![node_head] =
                        [p \in Players |-> @[p] + determinized_state.gamepoints_rewarded[p]]]
    /\ node_head' = root_node[node_head].parent
    /\ UNCHANGED <<perspective, itermax, biased, pc, i, determinized_state, legal_plays,
                   result, single_move, error>>
    /\ UNCHANGED unplayed_cards
    /\ UNCHANGED <<verbose, printed>>
    /\ UNCHANGED <<rejected, ended, inferences>>

\* the backpropagation loop ends, and with it the iteration
BackpropEnd ==
    /\ pc = "backprop"
    /\ node_head = None
    /\ i' = i + 1
    /\ pc' = "loop"
    /\ UNCHANGED <<perspective, itermax, biased, root_node, node_head,
                   determinized_state, legal_plays, result, single_move, error, credited>>
    /\ UNCHANGED unplayed_cards
    /\ UNCHANGED <<verbose, printed>>
    /\ UNCHANGED <<rejected, ended, inferences>>

\* Report with a tree_info that counts its own walk as a visit of the root
ReportCountingVisit ==
    /\ pc = "report"
    /\ IF ~verbose
       THEN /\ pc' = "extract"
            /\ UNCHANGED <<printed, error, root_node>>
       ELSE IF tree_info_constructor(root_node, Root).ok
       THEN /\ printed' = Append(printed, [file |-> "stderr",
                                           text |-> tree_info(root_node, Root)])
            /\ root_node' = [root_node EXCEPT ![Root].visits = @ + 1]
            /\ pc' = "extract"
            /\ UNCHANGED error
       ELSE /\ pc' = "failed"
            /\ error' = "AssertionError"
            /\ UNCHANGED <<printed, root_node>>
    /\ UNCHANGED <<perspective, itermax, verbose, biased, i, node_head,
                   determinized_state, legal_plays, unplayed_cards, result, single_move,
                   credited>>
    /\ UNCHANGED <<rejected, ended, inferences>>

\* if verbose: print(root_node.tree_info(), file=sys.stderr)
Report ==
    /\ pc = "report"
    /\ IF ~verbose
       THEN /\ pc' = "extract"
            /\ UNCHANGED <<printed, error>>
       ELSE IF tree_info_constructor(root_node, Root).ok
       THEN /\ printed' = Append(printed, [file |-> "stderr",
                                           text |-> tree_info(root_node, Root)])
            /\ pc' = "extract"
            /\ UNCHANGED error
       ELSE /\ pc' = "failed"
            /\ error' = "AssertionError"
            /\ UNCHANGED printed
    /\ UNCHANGED <<perspective, itermax, verbose, biased, i, root_node, node_head,
                   determinized_state, legal_plays, unplayed_cards, result, single_move,
                   credited>>
    /\ UNCHANGED <<rejected, ended, inferences>>

\* best_node = max(root_node.children, ...); return best_node.arriving_play
Extract ==
    /\ pc = "extract"
    /\ IF root_node[Root].children = <<>>
       THEN /\ pc' = "failed"
            /\ error' = "ValueError"
            /\ UNCHANGED result
       ELSE /\ result' = root_node[BestChild(root_node)].arriving_play
            /\ pc' = "done"
            /\ UNCHANGED error
    /\ UNCHANGED <<perspective, itermax, verbose, biased, i, root_node, node_head,
                   determinized_state, legal_plays, unplayed_cards, single_move,
                   credited, printed>>
    /\ UNCHANGED <<rejected, ended, inferences>>

Next ==
    \/ LoopHead
    \/ Shuffle
    \/ Determinize
    \/ DeterminizeUnsupported
    \/ CheckSingle
    \/ SelectionStep
    \/ SelectionEnd
    \/ Expansion
    \/ RolloutStep
    \/ RolloutEnd
    \/ BackpropStep
    \/ BackpropEnd
    \/ Report
    \/ Extract

Spec == Init /\ [][Next]_vars

(***************************************************************************)
(* Long searches: a budget large enough for the selection to walk down to  *)
(* the end of the game, over two of the outcomes of random.shuffle (the    *)
(* unseen cards left in deck order, or reversed).                          *)
(***************************************************************************)
DeepIter == 13

\* Shuffle with the outcome drawn from the two orders
ShuffleTwoOrders ==
    /\ pc = "determinize"
    /\ ~biased
    /\ unplayed_cards' \in {UnplayedCards(perspective), Reverse(UnplayedCards(perspective))}
    /\ pc' = "deal"
    /\ UNCHANGED <<perspective, itermax, biased, i, root_node, node_head,
                   determinized_state, legal_plays, result, single_move, error, credited>>
    /\ UNCHANGED <<verbose, printed>>
    /\ UNCHANGED <<rejected, ended, inferences>>

\* the calls with the long budget from the position of game 1 before the
\* last play of the ninth trick, without the report
InitDeep ==
    /\ perspective = PerspectiveAt(1, 4)
    /\ itermax = DeepIter
    /\ verbose = FALSE
    /\ biased \in BOOLEAN
    /\ pc = "loop"
    /\ i = 0
    /\ root_node = <<InfoSet(None, NoPlay)>>
    /\ node_head = None
    /\ determinized_state = EmptyState
    /\ legal_plays = <<>>
    /\ unplayed_cards = <<>>
    /\ result = NoPlay
    /\ single_move = FALSE
    /\ error = ""
    /\ credited = <<ZeroRewards>>
    /\ printed = <<>>
    /\ rejected = FALSE
    /\ ended = <<0>>
    /\ inferences = <<>>

NextDeep ==
    \/ LoopHead
    \/ ShuffleTwoOrders
    \/ Determinize
    \/ DeterminizeUnsupported
    \/ CheckSingle
    \/ SelectionStep
    \/ SelectionEnd
    \/ Expansion
    \/ RolloutStep
    \/ RolloutEnd
    \/ BackpropStep
    \/ BackpropEnd
    \/ Report
    \/ Extract

DeepSpec == InitDeep /\ [][NextDeep]_vars

(***************************************************************************)
(* The search over a rule engine that turns down a play of its own list of *)
(* legal plays: play() leaves the state as it is and returns an error      *)
(* code (the feedback console_game.py raises RuntimeError on); ismcts      *)
(* drops what play() returns.  At most one play of a call is turned down.  *)
(***************************************************************************)
\* a pass of the selection loop whose play() is turned down
SelectionStepRejected ==
    /\ pc = "select"
    /\ ~rejected
    /\ FullyExpanded
    /\ \A k \in 1 .. Len(legal_plays) :
           /\ HasChildFor(root_node[node_head], legal_plays[k])
           /\ root_node[ChildFor(root_node[node_head], legal_plays[k])].visits > 0
    /\ root_node' = UpdateAvails(root_node, node_head, legal_plays)
    /\ node_head' = ucb_child_select(root_node, node_head, legal_plays)
    /\ legal_plays' = get_legal_plays(determinized_state)
    /\ rejected' = TRUE
    /\ UNCHANGED <<perspective, itermax, verbose, biased, pc, i, determinized_state,
                   unplayed_cards, result, single_move, error, credited, printed>>
    /\ UNCHANGED ended
    /\ UNCHANGED inferences

\* an expansion whose play() is turned down
ExpansionRejected ==
    /\ pc = "expand"
    /\ ~rejected
    /\ LET untried == untried_plays(root_node[node_head], legal_plays)
       IN  /\ untried # <<>>
           /\ \E k \in 1 .. Len(untried) :
                  /\ root_node' = add_child(root_node, node_head, untried[k])
                  /\ node_head' = Len(root_node) + 1
                  /\ credited' = Append(credited, ZeroRewards)
    /\ pc' = "rollout"
    /\ rejected' = TRUE
    /\ UNCHANGED <<perspective, itermax, verbose, biased, i, determinized_state,
                   legal_plays, unplayed_cards, result, single_move, error, printed>>
    /\ ended' = Append(ended, 0)
    /\ UNCHANGED inferences

\* a pass of the simulation loop whose play() is turned down
RolloutStepRejected ==
    /\ pc = "rollout"
    /\ ~rejected
    /\ determinized_state.next_calltype = "PLAY"
    /\ legal_plays' = get_legal_plays(determinized_state)
    /\ legal_plays' # <<>>
    /\ rejected' = TRUE
    /\ UNCHANGED <<perspective, itermax, verbose, biased, pc, i, root_node, node_head,
                   determinized_state, unplayed_cards, result, single_move, error,
                   credited, printed>>
    /\ UNCHANGED ended
    /\ UNCHANGED inferences

\* the calls from the position of game 1 before the last play of the ninth
\* trick, without the report
InitRejecting == InitFrom({<<1, 4>>}) /\ ~verbose

NextRejecting ==
    \/ Next
    \/ SelectionStepRejected
    \/ ExpansionRejected
    \/ RolloutStepRejected

RejectingSpec == InitRejecting /\ [][NextRejecting]_vars

(***************************************************************************)
(* determinize on its own: every player's view of the positions of the     *)
(* tenth trick, and the views the searches start from                      *)
(***************************************************************************)
DetPerspectives ==
    {get_perspective(StateAfter(Games[g], n), p) : g \in 1 .. Len(Games), n \in 6 .. 9,
                                                   p \in Players}
        \cup {PerspectiveAt(r[1], r[2]) : r \in Roots}

\* the state of a call of ismcts at its first call of determinize
InitDetFrom(perspectives) ==
    /\ perspective \in perspectives
    /\ itermax = 1
    /\ verbose = FALSE
    /\ biased = FALSE
    /\ pc = "determinize"
    /\ i = 0
    /\ root_node = <<InfoSet(None, NoPlay)>>
    /\ node_head = Root
    /\ determinized_state = EmptyState
    /\ legal_plays = <<>>
    /\ unplayed_cards = <<>>
    /\ result = NoPlay
    /\ single_move = FALSE
    /\ error = ""
    /\ credited = <<ZeroRewards>>
    /\ printed = <<>>
    /\ rejected = FALSE
    /\ ended = <<0>>
    /\ inferences = <<>>

InitDet == InitDetFrom(DetPerspectives)

NextDet == Shuffle \/ Determinize

DetSpec == InitDet /\ [][NextDet]_vars

(***************************************************************************)
(* determinize on perspectives that were put together wrongly: the views   *)
(* the searches start from with one count of hand_sizes off by one, with a *)
(* card of the observer's hand left out, or with an unseen card added to   *)
(* the observer's hand                                                     *)
(***************************************************************************)
WithHandSize(persp, p, size) == [persp EXCEPT !.hand_sizes[p] = size]

WithoutFirstHandCard(persp) == [persp EXCEPT !.hand = Tail(@)]

WithHandCard(persp, c) == [persp EXCEPT !.hand = Append(@, c)]

MiscountedPerspectives ==
    LET base == {PerspectiveAt(r[1], r[2]) : r \in Roots}
    IN  base
        \cup {WithHandSize(q, p, q.hand_sizes[p] + 1) : q \in base, p \in Players}
        \cup {WithHandSize(q, p, q.hand_sizes[p] - 1) :
                  q \in {b \in base : \A p \in Players : b.hand_sizes[p] >= 1}, p \in Players}
        \cup {WithoutFirstHandCard(q) : q \in base}
        \cup UNION {{WithHandCard(q, c) : c \in Range(UnplayedCards(q))} : q \in base}

InitMiscounted == InitDetFrom(MiscountedPerspectives)

MiscountedSpec == InitMiscounted /\ [][NextDet]_vars

\* the search under the scheduling of a running call: it takes its next
\* step as long as it has one.  The calls are those of Roots without the
\* search of game 3, whose worlds are the 120 deals of five unseen cards.
FairRoots == Roots \ {<<3, 3>>}

InitFair == InitFrom(FairRoots)

FairSpec == InitFair /\ [][Next]_vars /\ WF_vars(Next)

(***************************************************************************)
(* The tree report on its own: tree_info applied to any tree of up to      *)
(* MaxNodes nodes, of any shape, with visit counts drawn from VisitValues. *)
(***************************************************************************)
MaxNodes == 5

VisitValues == {0, 7}

\* the elements of a set of numbers in ascending order
RECURSIVE Ascending(_)
Ascending(S) ==
    IF S = {} THEN <<>>
    ELSE LET least == CHOOSE x \in S : \A y \in S : x <= y
         IN  <<least>> \o Ascending(S \ {least})

\* the play by which node n of a drawn tree arrives
NodePlay(n) == IF n = Root THEN NoPlay ELSE [player |-> 0, card |-> n]

\* the tree of InfoSet nodes with the given parents and visit counts: the
\* children of a node in creation order, as add_child appends them
TreeOf(parents, visits) ==
    [n \in 1 .. Len(visits) |->
        LET kids == Ascending({c \in 2 .. Len(visits) : parents[c] = n})
        IN  [InfoSet(IF n = Root THEN None ELSE parents[n], NodePlay(n)) EXCEPT
                !.children = kids,
                !.play_to_children = [k \in 1 .. Len(kids) |->
                                         [play |-> NodePlay(kids[k]), child |-> kids[k]]],
                !.tried_plays = {NodePlay(kids[k]) : k \in 1 .. Len(kids)},
                !.visits = visits[n]]]

\* the parent of every node but the root was created before the node
ParentVectors(n) ==
    {pv \in [1 .. n -> 0 .. (n - 1)] :
        pv[1] = 0 /\ \A k \in 2 .. n : pv[k] \in 1 .. (k - 1)}

DrawnTrees ==
    UNION {{TreeOf(pv, vv) : pv \in ParentVectors(n), vv \in [1 .. n -> VisitValues]} :
              n \in 1 .. MaxNodes}

\* a call that has left the loop with one of the drawn trees
InitTree ==
    /\ perspective = PerspectiveAt(1, 4)
    /\ itermax = 0
    /\ verbose \in BOOLEAN
    /\ biased = FALSE
    /\ pc = "report"
    /\ i = 0
    /\ root_node \in DrawnTrees
    /\ node_head = None
    /\ determinized_state = EmptyState
    /\ legal_plays = <<>>
    /\ unplayed_cards = <<>>
    /\ result = NoPlay
    /\ single_move = FALSE
    /\ error = ""
    /\ credited = [n \in 1 .. Len(root_node) |-> ZeroRewards]
    /\ printed = <<>>
    /\ rejected = FALSE
    /\ ended = [n \in 1 .. Len(root_node) |-> 0]
    /\ inferences = <<>>

NextTree == Report

TreeSpec == InitTree /\ [][NextTree]_vars

(***************************************************************************)
(* Inferences, Inference and CardSet: what a perspective tells about the   *)
(* cards of each player.  A card set is the set of its cards.              *)
(***************************************************************************)
\* the attributes CardSet.__init__ gives an object
CardSetAttributes == {"cards_set"}

\* CardSet(info_string, complement) for the string of a list of cards: the
\* cards named, or the rest of the deck
CardSet(cards, complement) == IF complement THEN Deck \ cards ELSE cards

\* CardSet.suit_iter: the cards of a suit
SuitCards(suit) == {c \in 1 .. 52 : SuitOf(c) = suit}

\* CardSet.__add__: self.cards_set.union(other.cards)
CardSetAdd(self, other) ==
    IF "cards" \in CardSetAttributes
    THEN [ok |-> TRUE, error |-> "", cards |-> self \cup other]
    ELSE [ok |-> FALSE, error |-> "AttributeError", cards |-> self]

\* Inference.__init__
Inference(player, has, cardset) == [player |-> player, has |-> has, cardset |-> cardset]

\* Inference.__iadd__
InferenceIAdd(self, other) ==
    IF self.player # other.player \/ self.has # other.has
    THEN [ok |-> FALSE, error |-> "AssertionError", inference |-> self]
    ELSE LET sum == CardSetAdd(self.cardset, other.cardset)
         IN  [ok |-> sum.ok, error |-> sum.error,
              inference |-> [self EXCEPT !.cardset = sum.cards]]

\* the mighty of a game: the ace of the first suit, or of the second when
\* the first suit is trump
Mighty(trump) == IF trump = 0 THEN 26 ELSE 13

\* the plays of the completed tricks and of the current trick, each with the
\* suit led in its trick
PlaysWithSuitLed(pers) ==
    LET tricks == Append(pers.completed_tricks, pers.current_trick)
    IN  Flatten([t \in 1 .. Len(tricks) |->
                    [k \in 1 .. Len(tricks[t]) |->
                        [play |-> tricks[t][k], suit_led |-> SuitOf(tricks[t][1].card)]]])

\* the condition of the loop body: the card is no no-suit card, not the
\* mighty, not the joker, and not of the suit led
ShowsVoid(pers, item) ==
    /\ item.play.card # DeckSize
    /\ item.play.card # Mighty(pers.trump)
    /\ SuitOf(item.play.card) # item.suit_led

\* the loop over the tricks, from the k-th play on
RECURSIVE InferFromPlays(_, _, _, _)
InferFromPlays(pers, infs, items, k) ==
    IF k > Len(items) THEN [ok |-> TRUE, error |-> "", inferences |-> infs]
    ELSE IF ~ShowsVoid(pers, items[k]) THEN InferFromPlays(pers, infs, items, k + 1)
    ELSE LET player == items[k].play.player
             sum == InferenceIAdd(infs[player][2],
                        Inference(player, FALSE, CardSet(SuitCards(items[k].suit_led), FALSE)))
         IN  IF ~sum.ok THEN [ok |-> FALSE, error |-> sum.error, inferences |-> <<>>]
             ELSE InferFromPlays(pers, [infs EXCEPT ![player][2] = sum.inference],
                                 items, k + 1)

\* Inferences.__init__: the two inferences of every player, empty at first;
\* the hand of the observer and its complement; the suits the plays show void
InferencesOf(pers) ==
    LET empty == [q \in Players |->
                     <<Inference(q, TRUE, CardSet({}, FALSE)),
                       Inference(q, FALSE, CardSet({}, FALSE))>>]
        has == InferenceIAdd(empty[pers.player][1],
                   Inference(pers.player, TRUE, CardSet(Range(pers.hand), FALSE)))
        hasnt == InferenceIAdd(empty[pers.player][2],
                     Inference(pers.player, FALSE, CardSet(Range(pers.hand), TRUE)))
    IN  IF ~has.ok THEN [ok |-> FALSE, error |-> has.error, inferences |-> <<>>]
        ELSE IF ~hasnt.ok THEN [ok |-> FALSE, error |-> hasnt.error, inferences |-> <<>>]
        ELSE InferFromPlays(pers,
                 [empty EXCEPT ![pers.player] = <<has.inference, hasnt.inference>>],
                 PlaysWithSuitLed(pers), 1)

\* every player's view of every position of the last two tricks of the games
InferencePerspectives ==
    {get_perspective(StateAfter(Games[g], n), q) :
        g \in 1 .. Len(Games), n \in 0 .. 9, q \in Players}

InitInferences ==
    /\ perspective \in InferencePerspectives
    /\ itermax = 0
    /\ verbose = FALSE
    /\ biased = FALSE
    /\ pc = "inferences"
    /\ i = 0
    /\ root_node = <<InfoSet(None, NoPlay)>>
    /\ node_head = None
    /\ determinized_state = EmptyState
    /\ legal_plays = <<>>
    /\ unplayed_cards = <<>>
    /\ result = NoPlay
    /\ single_move = FALSE
    /\ error = ""
    /\ credited = <<ZeroRewards>>
    /\ printed = <<>>
    /\ rejected = FALSE
    /\ ended = <<0>>
    /\ inferences = <<>>

\* Inferences(perspective)
InferencesInit ==
    /\ pc = "inferences"
    /\ LET built == InferencesOf(perspective)
       IN  IF built.ok
           THEN /\ inferences' = built.inferences
                /\ pc' = "inferred"
                /\ UNCHANGED error
           ELSE /\ pc' = "failed"
                /\ error' = built.error
                /\ UNCHANGED inferences
    /\ UNCHANGED <<perspective, itermax, verbose, biased, i, root_node, node_head,
                   determinized_state, legal_plays, unplayed_cards, result, single_move,
                   credited, printed, rejected, ended>>

NextInferences == InferencesInit

InferencesSpec == InitInferences /\ [][NextInferences]_vars

(***************************************************************************)
(* Properties                                                              *)
(***************************************************************************)
\* the state determinize has just returned
Determinized == pc = "single"

\* every place of a card in a state: the hands, the kitty, the tricks
AllPlaces(s) ==
    Flatten([k \in 1 .. NumPlayers |-> s.hands[k - 1]])
        \o s.kitty
        \o CardsOf(Flatten(s.completed_tricks))
        \o CardsOf(s.current_trick)

\* C1: card conservation - in the state returned by determinize every card
\* of the deck is in exactly one place among the hands, the kitty, the
\* completed tricks and the current trick
CardConservation ==
    Determinized =>
        /\ Len(AllPlaces(determinized_state)) = DeckSize
        /\ Range(AllPlaces(determinized_state)) = Deck

\* C1 witness: a state was returned for an observer who is not the declarer,
\* in the middle of a trick, with cards dealt to others and to the kitty
CardConservationWitness ==
    /\ Determinized
    /\ ~is_declarer(perspective)
    /\ perspective.current_trick # <<>>
    /\ Len(determinized_state.kitty) = KittySize
    /\ \E p \in Players : p # perspective.player /\ determinized_state.hands[p] # <<>>

\* C2: observer fidelity - the observer's hand, the completed tricks and the
\* current trick of the returned state are those of the perspective, and so
\* is the kitty when the observer is the declarer
ObserverFidelity ==
    Determinized =>
        /\ determinized_state.hands[perspective.player] = perspective.hand
        /\ determinized_state.completed_tricks = perspective.completed_tricks
        /\ determinized_state.current_trick = perspective.current_trick
        /\ is_declarer(perspective) => determinized_state.kitty = perspective.kitty

\* C2 witness: a state was returned for a declarer holding two cards, with a
\* trick in progress and unseen cards dealt to the others
ObserverFidelityWitness ==
    /\ Determinized
    /\ is_declarer(perspective)
    /\ Len(perspective.hand) = 2
    /\ perspective.current_trick # <<>>
    /\ UnplayedCards(perspective) # <<>>

\* C3: hand-size fidelity - every player other than the observer holds
\* exactly hand_sizes[p] cards in the returned state
HandSizeFidelity ==
    Determinized =>
        \A p \in Players \ {perspective.player} :
            Len(determinized_state.hands[p]) = perspective.hand_sizes[p]

\* C3 witness: a state was returned where the other players are owed hands
\* of different sizes (two cards, one card, none)
HandSizeFidelityWitness ==
    /\ Determinized
    /\ \E p, q \in Players \ {perspective.player} :
           /\ perspective.hand_sizes[p] = 2
           /\ perspective.hand_sizes[q] = 1
           /\ Len(determinized_state.hands[p]) = 2

\* the legal plays of the root decision point: those of the observer, which
\* are the same in every world determinized from the perspective
RootLegalPlays(persp) ==
    get_legal_plays(from_perspective(persp,
        [p \in Players |-> IF p = persp.player THEN persp.hand ELSE <<>>], <<>>))

\* C4: with at least two legal plays at the root, the play ismcts returns is
\* one of the legal plays of the root decision point
ReturnedPlayIsLegal ==
    (pc = "done" /\ Len(RootLegalPlays(perspective)) >= 2) =>
        result \in Range(RootLegalPlays(perspective))

\* C4 witness: a search returned after growing the tree below the root's
\* children
ReturnedPlayIsLegalWitness ==
    /\ pc = "done"
    /\ Len(RootLegalPlays(perspective)) >= 2
    /\ \E n \in 1 .. Len(root_node) : root_node[n].parent \notin {None, Root}

\* the visit counts of the root's children, in the order of the children list
RootChildVisits == [k \in 1 .. Len(root_node[Root].children) |->
                       root_node[root_node[Root].children[k]].visits]

\* C5: most-robust child - after the budget is spent ismcts returns the
\* arriving play of the most visited child of the root, the earliest of the
\* children list among those with the highest visit count
MostRobustChild ==
    (pc = "done" /\ ~single_move) =>
        \E k \in 1 .. Len(RootChildVisits) :
            /\ \A j \in 1 .. Len(RootChildVisits) : RootChildVisits[j] <= RootChildVisits[k]
            /\ \A j \in 1 .. (k - 1) : RootChildVisits[j] < RootChildVisits[k]
            /\ result = root_node[root_node[Root].children[k]].arriving_play

\* C5 witness: a search returned the first of two equally visited children
\* although the later one has the higher mean reward
MostRobustChildWitness ==
    /\ pc = "done"
    /\ ~single_move
    /\ \E j, k \in 1 .. Len(RootChildVisits) :
           LET a == root_node[root_node[Root].children[j]]
               b == root_node[root_node[Root].children[k]]
           IN  /\ j < k
               /\ a.visits = b.visits
               /\ a.visits >= 2
               /\ a.reward_sum < b.reward_sum
               /\ result = a.arriving_play

\* the tree as InfoSet() leaves it
PristineTree == <<InfoSet(None, NoPlay)>>

\* C6: single-move short-circuit - with exactly one legal play at the root a
\* call with a positive budget returns that play, through the single-move
\* check of its first iteration and before any tree work: no child exists
\* and no counter has changed
SingleMoveShortCircuit ==
    /\ (itermax >= 1 /\ ~biased /\ Len(RootLegalPlays(perspective)) = 1) =>
           /\ pc \in {"loop", "determinize", "deal", "single", "done"}
           /\ pc = "done" => (single_move /\ result = RootLegalPlays(perspective)[1])
    /\ single_move =>
           /\ Len(RootLegalPlays(perspective)) = 1
           /\ i = 0
           /\ root_node = PristineTree

\* C6 witness: a call with a budget above 1 returned the one legal play of an
\* observer who holds two cards and must follow suit
SingleMoveShortCircuitWitness ==
    /\ pc = "done"
    /\ single_move
    /\ itermax > 1
    /\ Len(perspective.hand) = 2
    /\ result = RootLegalPlays(perspective)[1]

\* C7: monotonic visits - between iterations and at the return the root's
\* visit count and the sum of its children's visit counts both equal the
\* number of iterations run; at the return that is at most the budget, the
\* budget itself unless the single-move check returned
MonotonicVisits ==
    /\ pc \in {"loop", "extract", "done"} =>
           /\ root_node[Root].visits = i
           /\ SumSeq(RootChildVisits) = i
    /\ pc = "done" =>
           /\ SumSeq(RootChildVisits) <= itermax
           /\ ~single_move => (SumSeq(RootChildVisits) = itermax
                                 /\ root_node[Root].visits = itermax)

\* C7 witness: a search spent a budget of more than two iterations on
\* several children of the root
MonotonicVisitsWitness ==
    /\ pc = "done"
    /\ ~single_move
    /\ itermax > 2
    /\ Len(root_node[Root].children) >= 2
    /\ \E k \in 1 .. Len(RootChildVisits) : RootChildVisits[k] >= 2

\* C8: reward attribution - the root's reward_sum is always 0, and the
\* reward_sum of every other node is the sum, over the backpropagations that
\* updated it, of the reward of the player of its arriving play
RewardAttribution ==
    /\ root_node[Root].reward_sum = 0
    /\ \A n \in 2 .. Len(root_node) :
           root_node[n].reward_sum = credited[n][root_node[n].arriving_play.player]

\* C8 witness: a node has been updated twice with rewards that differ
\* between its player and another player
RewardAttributionWitness ==
    \E n \in 2 .. Len(root_node) :
        /\ root_node[n].visits >= 2
        /\ root_node[n].reward_sum # 0
        /\ \E p \in Players : credited[n][p] # root_node[n].reward_sum
        /\ credited[Root] # ZeroRewards

\* the cards still to be played in the current world
CardsInHands == SumSeq([k \in 1 .. NumPlayers |-> Len(determinized_state.hands[k - 1])])

\* C10: termination - every call ends; every play applied by the selection
\* loop, the expansion and the rollout loop takes a card out of the hands of
\* the world; a call that returns without the single-move check has run
\* exactly itermax iterations
Termination ==
    /\ <>(pc \in {"done", "failed"})
    /\ [][(pc \in {"select", "expand", "rollout"}
             /\ determinized_state' # determinized_state)
            => CardsInHands' < CardsInHands]_vars
    /\ [][(pc \in {"select", "rollout"} /\ pc' = pc)
            => determinized_state' # determinized_state]_vars
    /\ []((pc = "done" /\ ~single_move) => i = itermax)

\* C10 witness: a search has returned after running its whole budget
TerminationWitness ==
    /\ pc = "done"
    /\ ~single_move
    /\ i = itermax
    /\ itermax = MaxIter

\* C11: a call with a budget of zero or less never returns a play and is
\* rejected before any search work: no world is determinized, the tree stays
\* as constructed and nothing is printed, whatever the legal plays of the root
NonPositiveBudgetRejected ==
    itermax <= 0 =>
        /\ pc # "done"
        /\ result = NoPlay
        /\ determinized_state = EmptyState
        /\ root_node = PristineTree
        /\ printed = <<>>

\* C12: a call with biased=True and a positive budget ends in
\* NotImplementedError at its first determinization: no pool is shuffled, no
\* world and no play is returned, and the tree is left as constructed
BiasedUnsupported ==
    (biased /\ itermax >= 1) =>
        /\ pc \in {"loop", "determinize", "failed"}
        /\ pc = "failed" => error = "NotImplementedError"
        /\ unplayed_cards = <<>>
        /\ determinized_state = EmptyState
        /\ result = NoPlay
        /\ root_node = PristineTree
        /\ i = 0

\* C12 witness: a biased call with a budget above 1 has failed
BiasedUnsupportedWitness ==
    /\ biased
    /\ itermax > 1
    /\ pc = "failed"
    /\ error = "NotImplementedError"

\* the number of cards owed: sum(hand_sizes) - len(hand), and 3 more for the
\* kitty when the observer is not the declarer
CardsOwed(persp) ==
    SumSeq([k \in 1 .. NumPlayers |-> persp.hand_sizes[k - 1]]) - Len(persp.hand)
        + (IF is_declarer(persp) THEN 0 ELSE KittySize)

\* C13: determinize returns a state only when the unseen pool has exactly
\* the number of cards owed, and fails with AssertionError, nothing dealt,
\* when it has not; in a state it returns every other player holds
\* hand_sizes[p] cards and the kitty has 3 cards
AccountingChecked ==
    /\ Len(UnplayedCards(perspective)) # CardsOwed(perspective) =>
           /\ pc # "single"
           /\ determinized_state = EmptyState
           /\ pc = "failed" => error = "AssertionError"
    /\ Determinized =>
           /\ \A p \in Players \ {perspective.player} :
                  Len(determinized_state.hands[p]) = perspective.hand_sizes[p]
           /\ Len(determinized_state.kitty) = KittySize

\* C14: once the rule engine has turned down a play the search applied, the
\* call has ended with an error: it goes on to no further step, updates no
\* node and returns no play
RejectionIsFatal ==
    rejected => (pc = "failed" /\ result = NoPlay)

\* C15: the diagnostics read and never write: the step that makes the tree
\* report leaves every node (parent, children, visits, reward_sum, avails)
\* and the rest of the search state as they are and goes on to the choice of
\* the best child whatever verbose is, and the step that checks for a single
\* move returns or goes on by the legal plays alone; verbose is never
\* written, so the play returned is the same with verbose on and off
DiagnosticsReadOnly ==
    [][/\ verbose' = verbose
       /\ pc = "report" =>
              /\ pc' = "extract"
              /\ UNCHANGED <<root_node, node_head, determinized_state, legal_plays,
                             unplayed_cards, result, single_move, error, i, credited>>
              /\ printed' = IF verbose
                            THEN Append(printed, [file |-> "stderr",
                                                  text |-> tree_info(root_node, Root)])
                            ELSE printed
       /\ pc = "single" =>
              /\ pc' = IF Len(legal_plays') = 1 THEN "done" ELSE "select"
              /\ result' = IF Len(legal_plays') = 1 THEN legal_plays'[1] ELSE result
              /\ UNCHANGED <<root_node, node_head, determinized_state, i, credited>>
       /\ pc \notin {"report", "single"} => printed' = printed]_vars

\* a call with verbose on has printed the report of a tree with two children
\* of the root and returned a play
DiagnosticsReadOnlyWitness ==
    /\ verbose
    /\ pc = "done"
    /\ ~single_move
    /\ Len(printed) = 1
    /\ printed[1].file = "stderr"
    /\ Len(printed[1].text.layers) >= 2
    /\ Len(root_node[Root].children) = 2
    /\ result # NoPlay

\* the children ucb_child_select scores at the current node
ScoredChildren ==
    {root_node[node_head].play_to_children[k].child :
        k \in {j \in 1 .. Len(root_node[node_head].play_to_children) :
                  \E l \in 1 .. Len(legal_plays) :
                      root_node[node_head].play_to_children[j].play = legal_plays[l]}}

\* C16: no division by zero in selection - whenever the selection loop is
\* about to call ucb_child_select, every child it scores has visits >= 1 and
\* avails >= 1; no call ends in ZeroDivisionError, and every node but the
\* root has been visited by the time an iteration starts
NoDivisionByZero ==
    /\ error # "ZeroDivisionError"
    /\ (pc = "select" /\ FullyExpanded) =>
           \A c \in ScoredChildren :
               root_node[c].visits >= 1 /\ root_node[c].avails >= 1
    /\ pc \in {"loop", "determinize", "deal", "single", "select"} =>
           \A n \in 2 .. Len(root_node) :
               root_node[n].visits >= 1 /\ root_node[n].avails >= 1

\* C16 witness: ucb_child_select is about to score two children of a node,
\* one of them visited more often than the other and both scored before
NoDivisionByZeroWitness ==
    /\ pc = "select"
    /\ FullyExpanded
    /\ Cardinality(ScoredChildren) >= 2
    /\ \A c \in ScoredChildren : root_node[c].avails >= 2
    /\ \E c, d \in ScoredChildren : root_node[c].visits > root_node[d].visits

SelectionChoice == pc = "select" /\ pc' = "select" /\ node_head' # node_head

\* a step of the expansion that chooses an untried play
ExpansionChoice == pc = "expand" /\ Len(root_node') > Len(root_node)

\* node c is a child of the current node and its play is legal in the
\* current world
LegalChildOfHead(c) ==
    /\ root_node[c].parent = node_head
    /\ \E k \in 1 .. Len(legal_plays) : root_node[c].arriving_play = legal_plays[k]

IterationsStarted ==
    i + (IF \/ pc \in {"determinize", "deal", "single", "select", "expand", "rollout",
                       "backprop"}
            \/ single_move
            \/ pc = "failed" /\ error \notin {"ValueError"}
         THEN 1 ELSE 0)

\* the effect of an expansion step on the tree
ExpansionEffect ==
    IF \E k \in 1 .. Len(legal_plays) :
           legal_plays[k] \notin root_node[node_head].tried_plays
    THEN /\ Len(root_node') = Len(root_node) + 1
         /\ node_head' = Len(root_node')
         /\ root_node'[node_head'].parent = node_head
         /\ root_node'[node_head'].children = <<>>
         /\ root_node'[node_head'].visits = 0
         /\ root_node'[node_head'].reward_sum = 0
         /\ root_node'[node_head'].avails = 1
         /\ \E k \in 1 .. Len(legal_plays) :
                root_node'[node_head'].arriving_play = legal_plays[k]
         /\ legal_plays = get_legal_plays(determinized_state)
         /\ ~HasChildFor(root_node[node_head], root_node'[node_head'].arriving_play)
         /\ \A c \in 2 .. Len(root_node) :
                root_node[c].parent = node_head =>
                    root_node[c].arriving_play # root_node'[node_head'].arriving_play
         /\ root_node'[node_head].children = Append(root_node[node_head].children, node_head')
         /\ \A n \in (1 .. Len(root_node)) \ {node_head} : root_node'[n] = root_node[n]
    ELSE UNCHANGED <<root_node, node_head>>

ChildVisits(n) ==
    [k \in 1 .. Len(root_node[n].children) |-> root_node[root_node[n].children[k]].visits]

\* C20: backpropagation touches exactly the iteration's path - the walk
\* starts at the deepest node the iteration reached, which the simulation
\* leaves in place; each of its steps updates the current node alone, raising
\* its visits by exactly 1, and moves to its parent, and the walk ends only
\* after the root; parents come before their children, so no node is met
\* twice; no step outside the walk changes the visits or reward_sum of a
\* node; between iterations every node has been visited at least as often
\* as its children together
BackpropTouchesPath ==
    /\ [](/\ root_node[Root].parent = None
          /\ \A n \in 2 .. Len(root_node) :
                 root_node[n].parent \in 1 .. (n - 1)
          /\ pc = "loop" =>
                 \A n \in 1 .. Len(root_node) :
                     root_node[n].visits >= SumSeq(ChildVisits(n)))
    /\ [][/\ (pc = "backprop" /\ node_head # None) =>
                 /\ pc' = "backprop"
                 /\ node_head' = root_node[node_head].parent
                 /\ Len(root_node') = Len(root_node)
                 /\ root_node'[node_head].visits = root_node[node_head].visits + 1
                 /\ \A n \in (1 .. Len(root_node)) \ {node_head} :
                        root_node'[n] = root_node[n]
          /\ (pc = "backprop" /\ node_head = None) =>
                 /\ pc' = "loop"
                 /\ i' = i + 1
                 /\ root_node' = root_node
          /\ pc = "rollout" =>
                 /\ node_head' = node_head
                 /\ node_head \in 1 .. Len(root_node)
          /\ pc # "backprop" =>
                 \A n \in 1 .. Len(root_node) :
                     /\ root_node'[n].visits = root_node[n].visits
                     /\ root_node'[n].reward_sum = root_node[n].reward_sum]_vars

\* C20 witness: a walk that started two levels below the root has updated
\* the deepest node and its parent and now stands at the root, in a tree
\* with a node off the path
BackpropTouchesPathWitness ==
    /\ pc = "backprop"
    /\ node_head = Root
    /\ root_node[Root].visits = i
    /\ \E d \in 2 .. Len(root_node) :
           /\ root_node[d].parent # Root
           /\ root_node[d].visits = 1
           /\ root_node[root_node[d].parent].visits = 2
           /\ root_node[d].children = <<>>
           /\ \E o \in 2 .. Len(root_node) :
                  /\ o # d
                  /\ o # root_node[d].parent
                  /\ root_node[o].visits = 1

\* the places a call can go to next from each place of an iteration
PhaseSuccessors ==
    [loop        |-> {"determinize", "report"},
     determinize |-> {"deal", "failed"},
     deal        |-> {"single", "failed"},
     single      |-> {"select", "done"},
     select      |-> {"select", "expand", "failed"},
     expand      |-> {"rollout"},
     rollout     |-> {"rollout", "backprop", "failed"},
     backprop    |-> {"backprop", "loop"}]

\* C21: phase ordering within an iteration - determinization, selection,
\* expansion, rollout and backpropagation follow one another in that order;
\* the backpropagation starts only when the world has left the PLAY phase
\* with the game over and no card left to play, the world stays as it is
\* while the rewards are handed up the tree, and every update of a node adds
\* the rewards of that finished game
PhaseOrdering ==
    /\ [](pc = "backprop" =>
              /\ determinized_state.next_calltype = "GAME_OVER"
              /\ CardsInHands = 0
              /\ determinized_state.gamepoints_rewarded = GamePoints(determinized_state))
    /\ [][/\ (pc \in DOMAIN PhaseSuccessors /\ pc' # pc) => pc' \in PhaseSuccessors[pc]
          /\ pc = "backprop" => determinized_state' = determinized_state
          /\ (\E n \in 1 .. Len(root_node) : root_node'[n].visits # root_node[n].visits) =>
                 /\ pc = "backprop"
                 /\ determinized_state.next_calltype # "PLAY"
                 /\ get_legal_plays(determinized_state) = <<>>
                 /\ credited'[node_head] =
                        [p \in Players |->
                            credited[node_head][p]
                                + determinized_state.gamepoints_rewarded[p]]]_vars

\* C21 witness: a rollout of several plays has ended and the first node of
\* the path is about to be updated with rewards that differ between players
PhaseOrderingWitness ==
    /\ pc = "backprop"
    /\ node_head # None
    /\ node_head # Root
    /\ root_node[node_head].visits = 0
    /\ Len(determinized_state.completed_tricks) = NumTricks
    /\ \E p, q \in Players :
           determinized_state.gamepoints_rewarded[p] # determinized_state.gamepoints_rewarded[q]

\* C22: private determinized worlds - no step of a search changes the
\* perspective (hand, kitty, tricks, hand_sizes), whatever plays are applied
\* to the world, and every iteration builds its world anew from that same
\* perspective and its own shuffle: a fresh world repeats the perspective's
\* hand, tricks and point cards
PrivateWorlds ==
    /\ [][/\ perspective' = perspective
          /\ (pc = "deal" /\ pc' = "single") =>
                 /\ Range(unplayed_cards) = Range(UnplayedCards(perspective))
                 /\ determinized_state' = determinize(perspective, unplayed_cards)]_vars
    /\ [](Determinized =>
              /\ determinized_state.hands[perspective.player] = perspective.hand
              /\ determinized_state.completed_tricks = perspective.completed_tricks
              /\ determinized_state.current_trick = perspective.current_trick
              /\ determinized_state.point_cards = perspective.point_cards
              /\ determinized_state.trick_winners = perspective.trick_winners)

\* C22 witness: in a later iteration plays have been applied to the world -
\* the observer's card has left the world's hand and a trick has been
\* closed - and the perspective still has the hand and the tricks it had
PrivateWorldsWitness ==
    /\ pc = "rollout"
    /\ i >= 1
    /\ Len(determinized_state.hands[perspective.player]) < Len(perspective.hand)
    /\ Len(determinized_state.completed_tricks) > Len(perspective.completed_tricks)
    /\ determinized_state.point_cards # perspective.point_cards
    /\ Len(perspective.hand) = perspective.hand_sizes[perspective.player]

\* the hands of the players other than the observer, in player-index order
OtherHands(s, persp) ==
    Flatten([k \in 1 .. NumPlayers |->
                IF k - 1 = persp.player THEN <<>> ELSE s.hands[k - 1]])

\* C23: kitty sampling - when the observer is not the declarer, the kitty
\* of the state determinize returns is what is left of the shuffled unseen
\* pool after the four other players were dealt in player-index order off its
\* end: it has exactly 3 cards, all of the unseen pool, none of them in a
\* hand or among the played cards
KittySampling ==
    /\ [][(pc = "deal" /\ pc' = "single" /\ ~is_declarer(perspective)) =>
              /\ determinized_state'.kitty = SubSeq(unplayed_cards, 1, KittySize)
              /\ OtherHands(determinized_state', perspective)
                     = Reverse(SubSeq(unplayed_cards, KittySize + 1, Len(unplayed_cards)))]_vars
    /\ []((Determinized /\ ~is_declarer(perspective)) =>
              /\ Len(determinized_state.kitty) = KittySize
              /\ Cardinality(Range(determinized_state.kitty)) = KittySize
              /\ Range(determinized_state.kitty) \subseteq Range(UnplayedCards(perspective))
              /\ \A p \in Players :
                     Range(determinized_state.kitty) \cap Range(determinized_state.hands[p]) = {}
              /\ Range(determinized_state.kitty)
                     \cap Range(CardsOf(Flatten(determinized_state.completed_tricks))) = {}
              /\ Range(determinized_state.kitty)
                     \cap Range(CardsOf(determinized_state.current_trick)) = {}
              /\ Range(determinized_state.kitty) \cap Range(perspective.hand) = {})

\* C23 witness: a state was returned for an observer who is not the
\* declarer, with cards dealt to two other players before the kitty was left
KittySamplingWitness ==
    /\ Determinized
    /\ ~is_declarer(perspective)
    /\ Cardinality({p \in Players \ {perspective.player} :
                       determinized_state.hands[p] # <<>>}) >= 2
    /\ determinized_state.kitty # <<>>
    /\ perspective.kitty = <<>>

\* the arriving plays of the children of node n, in the order of the children
ChildPlays(n) ==
    [k \in 1 .. Len(root_node[n].children) |->
        root_node[root_node[n].children[k]].arriving_play]

\* the keys of the play-to-child mapping of node n
MappedPlays(n) ==
    {root_node[n].play_to_children[k].play : k \in 1 .. Len(root_node[n].play_to_children)}

\* node n is reached from node a by walking parents
RECURSIVE ReachesByParents(_, _)
ReachesByParents(n, a) ==
    IF n = a THEN TRUE
    ELSE IF n = None THEN FALSE
    ELSE ReachesByParents(root_node[n].parent, a)

\* C24: tree well-formedness - in every node the children have pairwise
\* distinct arriving plays; the tried plays are the keys of the play-to-child
\* mapping and the arriving plays of the children, and the mapping leads
\* from each play to the child that arrived by it; each child's parent is
\* the node, the root has no parent and walking parents from any node
\* reaches the root; untried_plays returns the legal plays without a child
\* at the node, in the order of legal_plays
TreeWellFormed ==
    /\ root_node[Root].parent = None
    /\ root_node[Root].arriving_play = NoPlay
    /\ \A n \in 1 .. Len(root_node) :
           /\ Cardinality(Range(ChildPlays(n))) = Len(root_node[n].children)
           /\ Cardinality(Range(root_node[n].children)) = Len(root_node[n].children)
           /\ root_node[n].tried_plays = MappedPlays(n)
           /\ root_node[n].tried_plays = Range(ChildPlays(n))
           /\ Len(root_node[n].play_to_children) = Len(root_node[n].children)
           /\ \A k \in 1 .. Len(root_node[n].play_to_children) :
                  /\ root_node[n].play_to_children[k].child \in Range(root_node[n].children)
                  /\ root_node[root_node[n].play_to_children[k].child].arriving_play
                         = root_node[n].play_to_children[k].play
           /\ \A k \in 1 .. Len(root_node[n].children) :
                  /\ root_node[n].children[k] \in 2 .. Len(root_node)
                  /\ root_node[root_node[n].children[k]].parent = n
           /\ n # Root => /\ root_node[n].parent \in 1 .. Len(root_node)
                          /\ n \in Range(root_node[root_node[n].parent].children)
           /\ ReachesByParents(n, Root)
    /\ pc \in {"select", "expand"} =>
           LET NoChild(play) ==
                   \A c \in Range(root_node[node_head].children) :
                       root_node[c].arriving_play # play
           IN  untried_plays(root_node[node_head], legal_plays)
                   = SelectSeq(legal_plays, NoChild)

\* C24 witness: the expansion is about to choose at a node below the root
\* that has a child already, among legal plays of which one is tried and
\* one is not
TreeWellFormedWitness ==
    /\ pc = "expand"
    /\ node_head # Root
    /\ root_node[node_head].children # <<>>
    /\ Len(untried_plays(root_node[node_head], legal_plays)) >= 1
    /\ Len(untried_plays(root_node[node_head], legal_plays)) < Len(legal_plays)

\* C25: availability bounds visits - between iterations and at the end of
\* the search every node but the root has avails >= visits >= 1; the root's
\* avails is 1 in every state of the search
AvailsBoundVisits ==
    /\ root_node[Root].avails = 1
    /\ pc \in {"loop", "report", "extract", "done"} =>
           \A n \in 2 .. Len(root_node) :
               /\ root_node[n].visits >= 1
               /\ root_node[n].avails >= root_node[n].visits

\* C25 witness: between iterations one node was available more often than
\* it was visited and another was visited every time it was available, more
\* than once
AvailsBoundVisitsWitness ==
    /\ pc = "loop"
    /\ \E n, m \in 2 .. Len(root_node) :
           /\ root_node[n].avails > root_node[n].visits
           /\ root_node[m].avails = root_node[m].visits
           /\ root_node[m].visits >= 2

\* C26: visit-count accounting - between iterations and at the end of the
\* search every node has at least as many visits as its children together;
\* the root has exactly as many, and every other node has one visit for the
\* iteration that created it, those of its children, and one for every
\* iteration that stopped at it because the world had no legal play there
VisitAccounting ==
    pc \in {"loop", "report", "extract", "done"} =>
        /\ Len(ended) = Len(root_node)
        /\ \A n \in 1 .. Len(root_node) :
               /\ root_node[n].visits >= SumSeq(ChildVisits(n))
               /\ root_node[n].visits =
                      (IF n = Root THEN 0 ELSE 1) + SumSeq(ChildVisits(n)) + ended[n]
        /\ ended[Root] = 0

\* C26 witness: between iterations, one node has been the end of an
\* iteration that found the game over there, and another has two children
\* visited
VisitAccountingWitness ==
    /\ pc = "loop"
    /\ \E n, m \in 2 .. Len(root_node) :
           /\ ended[n] >= 1
           /\ root_node[n].visits >= 2
           /\ root_node[n].children = <<>>
           /\ Len(root_node[m].children) >= 2
           /\ root_node[m].visits = 1 + SumSeq(ChildVisits(m))

\* the level of node n: 1 for the root
RECURSIVE LevelOf(_, _)
LevelOf(tree, n) ==
    IF tree[n].parent = None THEN 1 ELSE 1 + LevelOf(tree, tree[n].parent)

\* the leaves below node n (n itself if it is one), from left to right
RECURSIVE LeavesUnder(_, _)
LeavesUnder(tree, n) ==
    IF tree[n].children = <<>> THEN <<n>>
    ELSE Flatten([k \in 1 .. Len(tree[n].children) |->
                     LeavesUnder(tree, tree[n].children[k])])

\* the number of levels of the tree
LevelCount(tree) ==
    CHOOSE d \in 1 .. Len(tree) :
        /\ \E n \in 1 .. Len(tree) : LevelOf(tree, n) = d
        /\ \A n \in 1 .. Len(tree) : LevelOf(tree, n) <= d

\* the layout the report is to have: one layer per level, one column per
\* leaf, a node's visits in the column of its leftmost leaf, -1 elsewhere
ExpectedLayers(tree) ==
    LET leaves == LeavesUnder(tree, Root)
        At(d, c) == {n \in 1 .. Len(tree) :
                        LevelOf(tree, n) = d /\ LeavesUnder(tree, n)[1] = leaves[c]}
    IN  [d \in 1 .. LevelCount(tree) |->
            [c \in 1 .. Len(leaves) |->
                IF At(d, c) = {} THEN -1 ELSE tree[TheOne(At(d, c))].visits]]

\* C27: tree-statistics layout - for every tree the equal-width assertion of
\* the report passes; the layers all have as many columns as the tree has
\* leaves and there is one layer per level of the tree; a node's visit count
\* stands in the layer of its level, in the column of its leftmost leaf
\* descendant, and every other position holds -1
TreeInfoLayout ==
    /\ error # "AssertionError"
    /\ (pc = "extract" /\ verbose) =>
           /\ Len(printed) = 1
           /\ Len(printed[1].text.layers) = LevelCount(root_node)
           /\ \A d \in 1 .. Len(printed[1].text.layers) :
                  Len(printed[1].text.layers[d]) = Len(LeavesUnder(root_node, Root))
           /\ printed[1].text.layers = ExpectedLayers(root_node)
           /\ \A n \in 1 .. Len(root_node) :
                  Cardinality({m \in 1 .. Len(root_node) :
                                  /\ LevelOf(root_node, m) = LevelOf(root_node, n)
                                  /\ LeavesUnder(root_node, m)[1]
                                         = LeavesUnder(root_node, n)[1]}) = 1

\* C27 witness: the report was made of a tree whose root has a leaf and a
\* node with children among its children, so that leaves stand at different
\* levels and the layers are filled up with -1
TreeInfoLayoutWitness ==
    /\ pc = "extract"
    /\ verbose
    /\ Len(printed) = 1
    /\ Len(root_node[Root].children) >= 2
    /\ \E a, b \in Range(root_node[Root].children) :
           /\ root_node[a].children = <<>>
           /\ Len(root_node[b].children) >= 2
           /\ a < b
    /\ Len(printed[1].text.layers) = 3
    /\ \E c \in 1 .. Len(printed[1].text.layers[3]) : printed[1].text.layers[3][c] = -1
    /\ \E c \in 1 .. Len(printed[1].text.layers[3]) : printed[1].text.layers[3][c] = 7

\* the suits player q has shown void by a play of the perspective
VoidSuits(pers, q) ==
    {PlaysWithSuitLed(pers)[k].suit_led :
        k \in {j \in 1 .. Len(PlaysWithSuitLed(pers)) :
                  /\ PlaysWithSuitLed(pers)[j].play.player = q
                  /\ ShowsVoid(pers, PlaysWithSuitLed(pers)[j])}}

\* C28: inference accumulation - constructing Inferences for a perspective
\* succeeds and gives every player a "has" and a "does-not-have" inference;
\* the observer has the hand and does not have the rest of the deck, and
\* every player does not have the cards of the suits led to which the player
\* played a card of another suit (the mighty and the joker apart)
InferenceAccumulation ==
    /\ error # "AttributeError"
    /\ pc = "inferences" => inferences = <<>>
    /\ pc = "inferred" =>
           /\ DOMAIN inferences = Players
           /\ \A q \in Players :
                  /\ inferences[q][1] =
                         Inference(q, TRUE,
                                   IF q = perspective.player THEN Range(perspective.hand)
                                   ELSE {})
                  /\ inferences[q][2] =
                         Inference(q, FALSE,
                                   (IF q = perspective.player
                                    THEN Deck \ Range(perspective.hand) ELSE {})
                                       \cup UNION {SuitCards(suit) :
                                                      suit \in VoidSuits(perspective, q)})

====
